---- MODULE Spec2Model ----
(***************************************************************************)
(* Self-learning genetic algorithm for the flexible job-shop problem       *)
(* (FJSSP-SLGA): the active-schedule decoder (src/genetic/decoding.py),    *)
(* the genetic operators (src/genetic/genetic.py), the encoding            *)
(* (src/genetic/encoding.py) and the generational loop with its            *)
(* reinforcement-learning controller (src/main.py).                        *)
(*                                                                         *)
(* Conventions.  Python lists are sequences; a Python index i is the       *)
(* sequence index i + 1.  Job ids in OS and option indices in MS keep the  *)
(* code's 0-based values.                                                  *)
(***************************************************************************)
EXTENDS Integers, Sequences, FiniteSets, TLC

VARIABLES
    inst,       \* parameters: [machinesNb, jobs], jobs[j][k] a list of options
    dOS,        \* decode(pb_instance, os, ms): the os argument
    dMS,        \* decode(pb_instance, os, ms): the ms argument
    dec,        \* decode's locals: machine_operations, indexes, start_task_cstr
    cfg,        \* config.py: [popSize, maxGen, prNum, prDen], pr = prNum / prDen
    pc,         \* where run_genetic_algorithm stands
    error,      \* the exception that ended the run, "" while none has
    gen,        \* main.py: gen
    population, \* main.py: population, a list of (OS, MS); MS is a reference
    heap,       \* the MS list objects: heap[r] is the content of reference r
    newPop,     \* genetic.mutation: newPop while its loop runs
    Q,          \* main.py: Q, Q[state + 1][action + 1] a float64
    action,     \* main.py: action
    next_action,            \* main.py: next_action
    best_time,              \* main.py: best_time
    new_best_time,          \* main.py: new_best_time
    reward,                 \* main.py: reward, a float64
    previous_best_time,     \* main.py: previous_best_time
    no_improvement_count,   \* main.py: no_improvement_count
    use_sarsa,              \* main.py: use_sarsa
    mutDrawn,   \* history: per index, whether mutation drew random() < pm
    call,       \* a single call of an operator: its name and arguments
    ret         \* what that call drew and returned

decVars == <<dOS, dMS, dec>>

rlVars == <<Q, action, next_action, best_time, new_best_time, reward,
            previous_best_time, no_improvement_count, use_sarsa>>

gaVars == <<cfg, pc, error, gen, population, heap, newPop, rlVars,
            mutDrawn>>

opVars == <<call, ret>>

vars == <<inst, decVars, opVars, gaVars>>

(***************************************************************************)
(* Bounds of the model.                                                    *)
(***************************************************************************)
\* Largest processing time of the generated decoder instances.
MaxDur == 2

\* config.maxGen of the runs.
MaxGen == 2

\* Largest config.popSize of the runs on the one-chromosome instances.
MaxPop == 3

\* Largest start of an operation already placed on the machine of a single
\* call of find_first_available_place.
MaxStart == 4

\* Most operations already placed on that machine.
MaxPlaced == 2

(***************************************************************************)
(* Constants of the program.                                               *)
(***************************************************************************)
\* main.py line 111.
max_no_improvement_generations == 50

(***************************************************************************)
(* Helpers.                                                                *)
(***************************************************************************)
Max2(a, b) == IF a > b THEN a ELSE b

SetMax(S) == CHOOSE x \in S : \A y \in S : y <= x

SetMin(S) == CHOOSE x \in S : \A y \in S : x <= y

\* Python's None, as returned by a function that falls off its end.
NoneVal == 0 - 1

\* float('inf'), which no makespan equals.
Infinity == 0 - 2

\* p[a:b] of Python, a and b 0-based with 0 <= a, b <= len(p).
Slice(p, a, b) == IF b <= a THEN <<>> ELSE SubSeq(p, a + 1, b)

RECURSIVE SumLen(_)
SumLen(js) == IF js = <<>> THEN 0 ELSE Len(Head(js)) + SumLen(Tail(js))

\* Number of operations of the instance.
total_ops(pb) == SumLen(pb.jobs)

(***************************************************************************)
(* decoding.py                                                             *)
(***************************************************************************)
\* The offset of job j (0-based) in the job-major MS vector.
RECURSIVE JobOffset(_, _)
JobOffset(pb, j) == IF j = 0 THEN 0 ELSE JobOffset(pb, j - 1) + Len(pb.jobs[j])

\* split_ms: ms cut into one sub-sequence per job.
split_ms(pb, ms) ==
    [j \in 1..Len(pb.jobs) |->
        Slice(ms, JobOffset(pb, j - 1), JobOffset(pb, j - 1) + Len(pb.jobs[j]))]

\* job[3] + job[1] of a placed tuple (name, prcTime, start_cstr, start).
PlacedEnd(job) == job.start + job.prcTime

\* Faulty variant of max_duration: lines 77 and 84 without + duration, an
\* occupancy array that ends with the last placed operation.
max_duration_noTail(start_ctr, duration, machine_jobs) ==
    IF machine_jobs # <<>>
    THEN Max2(SetMax({PlacedEnd(machine_jobs[n]) : n \in 1..Len(machine_jobs)}),
              start_ctr)
    ELSE start_ctr

\* len(machine_used): lines 76-86.
max_duration(start_ctr, duration, machine_jobs) ==
    IF machine_jobs # <<>>
    THEN Max2(SetMax({PlacedEnd(machine_jobs[n]) : n \in 1..Len(machine_jobs)}),
              start_ctr) + duration
    ELSE start_ctr + duration

\* Faulty variant of machine_used: line 92 as range(start, start + long - 1), which
\* leaves the last slot of every placed operation idle.
machine_used_short(start_ctr, duration, machine_jobs) ==
    [k \in 0..(max_duration(start_ctr, duration, machine_jobs) - 1) |->
        ~ \E n \in 1..Len(machine_jobs) :
            /\ machine_jobs[n].start <= k
            /\ k < machine_jobs[n].start + machine_jobs[n].prcTime - 1]

\* machine_used after lines 86-93: True where the machine is idle.
machine_used(start_ctr, duration, machine_jobs) ==
    [k \in 0..(max_duration(start_ctr, duration, machine_jobs) - 1) |->
        ~ \E n \in 1..Len(machine_jobs) :
            /\ machine_jobs[n].start <= k
            /\ k < machine_jobs[n].start + machine_jobs[n].prcTime]

\* is_free scans start, start+1, ...: False at the first busy slot, an
\* IndexError when it reads past the end of tab before one, True otherwise.
is_free(tab, start, duration) ==
    LET scanned == start..(start + duration - 1)
        busy == {k \in scanned : k \in DOMAIN tab /\ ~tab[k]}
        outside == {k \in scanned : k \notin DOMAIN tab}
    IN  IF busy # {} /\ (outside = {} \/ SetMin(busy) < SetMin(outside))
        THEN "False"
        ELSE IF outside # {} THEN "IndexError" ELSE "True"

\* Faulty variant of find_first_available_place: line 96 as range(0, len(...)), a
\* search that forgets the start constraint.
find_first_available_place_from0(start_ctr, duration, machine_jobs) ==
    LET tab == machine_used(start_ctr, duration, machine_jobs)
        len == max_duration(start_ctr, duration, machine_jobs)
        stops == {k \in 0..(len - 1) : is_free(tab, k, duration) # "False"}
    IN  IF stops = {}
        THEN [res |-> "None", k |-> NoneVal]
        ELSE IF is_free(tab, SetMin(stops), duration) = "True"
             THEN [res |-> "ok", k |-> SetMin(stops)]
             ELSE [res |-> "IndexError", k |-> NoneVal]

\* find_first_available_place: [res |-> "ok", k |-> start], or res "None"
\* when the loop of line 96 ends without a return, or res "IndexError".
find_first_available_place(start_ctr, duration, machine_jobs) ==
    LET tab == machine_used(start_ctr, duration, machine_jobs)
        len == max_duration(start_ctr, duration, machine_jobs)
        stops == {k \in start_ctr..(len - 1) : is_free(tab, k, duration) # "False"}
    IN  IF stops = {}
        THEN [res |-> "None", k |-> NoneVal]
        ELSE IF is_free(tab, SetMin(stops), duration) = "True"
             THEN [res |-> "ok", k |-> SetMin(stops)]
             ELSE [res |-> "IndexError", k |-> NoneVal]

\* translate_decoded_to_gantt, lines 146-164: per machine (the key
\* "Machine-{idx + 1}" is the index idx + 1) the entries
\* [start, start + prcTime, name] in the order of the machine's list.
translate_decoded_to_gantt(machine_operations) ==
    [m \in DOMAIN machine_operations |->
        [n \in 1..Len(machine_operations[m]) |->
            <<machine_operations[m][n].start,
              machine_operations[m][n].start + machine_operations[m][n].prcTime,
              machine_operations[m][n].name>>]]

\* decode's locals before the loop of line 123.
DecodeStart(pb) ==
    [machine_operations |-> [m \in 1..pb.machinesNb |-> <<>>],
     indexes            |-> [j \in 1..Len(pb.jobs) |-> 0],
     start_task_cstr    |-> [j \in 1..Len(pb.jobs) |-> 0],
     pos                |-> 0,
     status             |-> "run"]

\* One iteration of the loop of lines 123-137, on the OS entry at d.pos.
\* A start of None is appended at line 133, line 136 advances indexes[job]
\* and line 137 then raises TypeError on start + prcTime.
DecodeStep(pb, os, ms, d) ==
    LET job           == os[d.pos + 1]
        k             == d.indexes[job + 1]
        index_machine == split_ms(pb, ms)[job + 1][k + 1]
        option        == pb.jobs[job + 1][k + 1][index_machine + 1]
        machine       == option.machine
        prcTime       == option.processingTime
        start_cstr    == d.start_task_cstr[job + 1]
        found         == find_first_available_place(start_cstr, prcTime,
                             d.machine_operations[machine])
        placed        == [name       |-> <<job + 1, k + 1>>,
                          prcTime    |-> prcTime,
                          start_cstr |-> start_cstr,
                          start      |-> found.k]
    IN  IF found.res = "IndexError"
        THEN [d EXCEPT !.status = "IndexError"]
        ELSE IF found.res = "None"
        THEN [d EXCEPT !.machine_operations[machine] = Append(@, placed),
                       !.indexes[job + 1] = @ + 1,
                       !.status = "TypeError"]
        ELSE [d EXCEPT !.machine_operations[machine] = Append(@, placed),
                       !.indexes[job + 1] = @ + 1,
                       !.start_task_cstr[job + 1] = found.k + prcTime,
                       !.pos = @ + 1]

\* The loop of line 123 run to its end or to the exception that leaves it.
RECURSIVE DecodeLoop(_, _, _, _)
DecodeLoop(pb, os, ms, d) ==
    IF d.status # "run" THEN d
    ELSE IF d.pos = Len(os) THEN [d EXCEPT !.status = "done"]
    ELSE DecodeLoop(pb, os, ms, DecodeStep(pb, os, ms, d))

\* decode(pb_instance, os, ms): status "done" and the schedule returned, or
\* the exception raised.
decode(pb, os, ms) == DecodeLoop(pb, os, ms, DecodeStart(pb))

(***************************************************************************)
(* encoding.py: the chromosomes generateOS and generateMS can return.      *)
(***************************************************************************)
\* Number of occurrences of v in the sequence s.
Count(s, v) == Cardinality({n \in 1..Len(s) : s[n] = v})

\* generateOS: every shuffle of the list holding job i once per operation.
LegalOS(pb) ==
    {s \in [1..total_ops(pb) -> 0..(Len(pb.jobs) - 1)] :
        \A j \in 1..Len(pb.jobs) : Count(s, j - 1) = Len(pb.jobs[j])}

\* The options of the operation at job-major position p (0-based).
RECURSIVE OpAt(_, _, _)
OpAt(pb, j, p) ==
    IF p < Len(pb.jobs[j]) THEN pb.jobs[j][p + 1]
    ELSE OpAt(pb, j + 1, p - Len(pb.jobs[j]))

\* generateMS: randint(0, len(op) - 1) for every operation, job-major.
LegalMS(pb) ==
    LET most == SetMax({0} \cup {Len(OpAt(pb, 1, p - 1)) : p \in 1..total_ops(pb)})
    IN  {s \in [1..total_ops(pb) -> 0..(most - 1)] :
            \A p \in 1..total_ops(pb) : s[p] < Len(OpAt(pb, 1, p - 1))}

(***************************************************************************)
(* genetic.py: fitness and selection.  An individual is [os, ms]: os the   *)
(* content of its OS list (no operator writes into an OS list, so its      *)
(* identity is not tracked) and ms a reference to its MS list object.      *)
(***************************************************************************)
\* Faulty variant of MakespanOf: line 31 as end = job[3], the start of the
\* operation instead of its end.
MakespanOf_starts(machine_operations) ==
    SetMax({0} \cup
           UNION {{machine_operations[m][n].start :
                      n \in 1..Len(machine_operations[m])} :
                  m \in DOMAIN machine_operations})

\* timeTaken, lines 16-36, of a schedule decode returned.
MakespanOf(machine_operations) ==
    SetMax({0} \cup
           UNION {{PlacedEnd(machine_operations[m][n]) :
                      n \in 1..Len(machine_operations[m])} :
                  m \in DOMAIN machine_operations})

timeTaken(pb, os, ms) == MakespanOf(decode(pb, os, ms).machine_operations)

\* timeTaken raises what decode raises.
timeTakenFails(pb, os, ms) == decode(pb, os, ms).status # "done"

\* The makespans of a population whose MS lists live in h.
Times(pb, pop, h) ==
    [n \in 1..Len(pop) |-> timeTaken(pb, pop[n].os, h[pop[n].ms])]

AnyFails(pb, pop, h) ==
    \E n \in 1..Len(pop) : timeTakenFails(pb, pop[n].os, h[pop[n].ms])

\* min(population, key=timeTaken) as a makespan: lines 158-159, 199-200.
BestTime(pb, pop, h) == SetMin({Times(pb, pop, h)[n] : n \in 1..Len(pop)})

\* Faulty variant of SortedIndex: a sort that is not stable and puts the
\* later of two individuals of equal makespan first.
SortedIndex_unstable(keys, r) ==
    CHOOSE n \in DOMAIN keys :
        Cardinality({m \in DOMAIN keys :
            keys[m] < keys[n] \/ (keys[m] = keys[n] /\ m > n)}) = r - 1

\* sorted(population, key=...): the index that lands at rank r (1-based) of
\* Python's stable sort.
SortedIndex(keys, r) ==
    CHOOSE n \in DOMAIN keys :
        Cardinality({m \in DOMAIN keys :
            keys[m] < keys[n] \/ (keys[m] = keys[n] /\ m < n)}) = r - 1

\* int(config.pr * len(population)), line 50.
keptPopSize(c, n) == (c.prNum * n) \div c.prDen

\* Faulty variant of elitistSelection: the sort of line 51 descending, so
\* that the slice keeps the worst individuals.
elitistSelection_worst(c, pop, keys) ==
    [r \in 1..keptPopSize(c, Len(pop)) |->
        pop[SortedIndex([n \in DOMAIN keys |-> 0 - keys[n]], r)]]

\* elitistSelection, lines 43-52.
elitistSelection(c, pop, keys) ==
    [r \in 1..keptPopSize(c, Len(pop)) |-> pop[SortedIndex(keys, r)]]

\* tournamentSelection, lines 54-68, with the two randint draws a and b
\* (1-based): min returns the first of the two on a tie.
tournamentSelection(pop, keys, a, b) ==
    IF keys[b] < keys[a] THEN pop[b] ELSE pop[a]

\* The number of tournaments the loop of lines 78-79 runs.
TournamentCount(c, pop) == Len(pop) - keptPopSize(c, Len(pop))

\* selection, lines 70-81, with the draws of its tournaments.
selection(c, pop, keys, draws) ==
    elitistSelection(c, pop, keys) \o
    [t \in 1..Len(draws) |->
        tournamentSelection(pop, keys, draws[t][1], draws[t][2])]

(***************************************************************************)
(* Object identity.  References are renumbered in the order the population *)
(* first mentions them and unreachable lists are dropped: two heaps that   *)
(* differ by a renaming are the same program state.                        *)
(***************************************************************************)
RECURSIVE RefOrder(_, _)
RefOrder(pop, seen) ==
    IF pop = <<>> THEN seen
    ELSE IF \E n \in 1..Len(seen) : seen[n] = Head(pop).ms
         THEN RefOrder(Tail(pop), seen)
         ELSE RefOrder(Tail(pop), Append(seen, Head(pop).ms))

IndexIn(seq, r) == CHOOSE n \in 1..Len(seq) : seq[n] = r

Renamed(pop, order) ==
    [n \in 1..Len(pop) |-> [os |-> pop[n].os, ms |-> IndexIn(order, pop[n].ms)]]

Reheaped(h, order) == [n \in 1..Len(order) |-> h[order[n]]]

(***************************************************************************)
(* genetic.py: crossover operators.                                        *)
(***************************************************************************)
\* The -1 placeholders of o replaced, left to right, by kept.pop(0); a
\* placeholder stays when kept is used up (the pop raises IndexError).
RECURSIVE Fill(_, _)
Fill(o, kept) ==
    IF o = <<>> THEN <<>>
    ELSE IF Head(o) # NoneVal THEN <<Head(o)>> \o Fill(Tail(o), kept)
    ELSE IF kept = <<>> THEN o
    ELSE <<Head(kept)>> \o Fill(Tail(o), Tail(kept))

\* o with the entries outside keep replaced by -1.
Masked(p, keep) == [n \in 1..Len(p) |-> IF p[n] \in keep THEN p[n] ELSE NoneVal]

\* The entries of p that satisfy membership (or not) in a set, in order.
RECURSIVE Entries(_, _, _)
Entries(p, set, inside) ==
    IF p = <<>> THEN <<>>
    ELSE IF (Head(p) \in set) = inside
         THEN <<Head(p)>> \o Entries(Tail(p), set, inside)
         ELSE Entries(Tail(p), set, inside)

\* The job ids random.sample draws jobset1 from in POX, line 97.
POXJobsRange(pb) == 1..Len(pb.jobs)

\* precedenceOperationCrossover, lines 87-130, with jobset1 drawn.
precedenceOperationCrossover(p1, p2, jobset1) ==
    <<Fill(Masked(p1, jobset1), Entries(p2, jobset1, FALSE)),
      Fill(Masked(p2, jobset1), Entries(p1, jobset1, FALSE))>>

\* The job ids random.sample draws jobset1 from in JBX, line 142.
JBXJobsRange(pb) == 0..(Len(pb.jobs) - 1)

\* Faulty variant of jobBasedCrossover: line 146 as jobset2 = jobset1, so
\* that both offspring are filled from the same job set.
jobBasedCrossover_sameSet(pb, p1, p2, jobset1) ==
    <<Fill(Masked(p1, jobset1), Entries(p2, jobset1, TRUE)),
      Fill(Masked(p2, jobset1), Entries(p1, jobset1, TRUE))>>

\* jobBasedCrossover, lines 132-176, with jobset1 drawn.
jobBasedCrossover(pb, p1, p2, jobset1) ==
    LET jobset2 == JBXJobsRange(pb) \ jobset1
    IN  <<Fill(Masked(p1, jobset1), Entries(p2, jobset2, TRUE)),
          Fill(Masked(p2, jobset2), Entries(p1, jobset1, TRUE))>>

\* twoPointCrossover, lines 178-199, with pos1 and pos2 drawn (0-based).
twoPointCrossover(p1, p2, pos1, pos2) ==
    LET lo == IF pos1 > pos2 THEN pos2 ELSE pos1
        hi == IF pos1 > pos2 THEN pos1 ELSE pos2
    IN  IF lo # hi
        THEN <<Slice(p1, 0, lo) \o Slice(p2, lo, hi) \o Slice(p1, hi, Len(p1)),
               Slice(p2, 0, lo) \o Slice(p1, lo, hi) \o Slice(p2, hi, Len(p2))>>
        ELSE <<p1, p2>>

\* crossoverOS, lines 201-212: c.pox is random.choice([True, False]).
crossoverOS(pb, p1, p2, c) ==
    IF c.pox THEN precedenceOperationCrossover(p1, p2, c.jobset1)
    ELSE jobBasedCrossover(pb, p1, p2, c.jobset1)

\* What one pair can draw: no crossover (random.random() >= pc), or the
\* operator, its job set and the two cut points.
CrossChoices(pb) ==
    {[cross |-> FALSE, pox |-> FALSE, jobset1 |-> {}, pos1 |-> 0, pos2 |-> 0]}
    \cup
    {[cross |-> TRUE, pox |-> TRUE, jobset1 |-> js, pos1 |-> a, pos2 |-> b] :
        js \in SUBSET POXJobsRange(pb),
        a \in 0..Max2(total_ops(pb) - 1, 0), b \in 0..Max2(total_ops(pb) - 1, 0)}
    \cup
    {[cross |-> TRUE, pox |-> FALSE, jobset1 |-> js, pos1 |-> a, pos2 |-> b] :
        js \in SUBSET JBXJobsRange(pb),
        a \in 0..Max2(total_ops(pb) - 1, 0), b \in 0..Max2(total_ops(pb) - 1, 0)}

\* Faulty variant of CrossPair: a pair that is not crossed over hands on
\* its first individual only (line 243 missing).
CrossPair_dropSecond(pb, pop, i, c, h, acc) ==
    IF i + 2 > Len(pop)
    THEN [pop |-> acc, heap |-> h, error |-> "IndexError"]
    ELSE [pop |-> Append(acc, pop[i + 1]), heap |-> h, error |-> ""]

\* One iteration of the loop of lines 232-245 on the pair at 0-based index
\* i, with the heap h and the offspring acc so far: [pop, heap, error].
CrossPair(pb, pop, i, c, h, acc) ==
    IF i + 2 > Len(pop)
    THEN [pop |-> acc, heap |-> h, error |-> "IndexError"]
    ELSE LET i1 == pop[i + 1]
             i2 == pop[i + 2]
         IN  IF ~c.cross
             THEN [pop |-> acc \o <<i1, i2>>, heap |-> h, error |-> ""]
             ELSE LET oOS == crossoverOS(pb, i1.os, i2.os, c)
                      oMS == twoPointCrossover(h[i1.ms], h[i2.ms], c.pos1, c.pos2)
                  IN  IF \E n \in 1..Len(oOS[1]) :
                             oOS[1][n] = NoneVal \/ oOS[2][n] = NoneVal
                      THEN [pop |-> acc, heap |-> h, error |-> "IndexError"]
                      ELSE IF Len(h[i1.ms]) = 0
                      THEN [pop |-> acc, heap |-> h, error |-> "ValueError"]
                      ELSE IF c.pos1 = c.pos2
                      THEN [pop |-> acc \o <<[os |-> oOS[1], ms |-> i1.ms],
                                             [os |-> oOS[2], ms |-> i2.ms]>>,
                            heap |-> h, error |-> ""]
                      ELSE [pop |-> acc \o <<[os |-> oOS[1], ms |-> Len(h) + 1],
                                             [os |-> oOS[2], ms |-> Len(h) + 2]>>,
                            heap |-> h \o <<oMS[1], oMS[2]>>, error |-> ""]

\* crossover, lines 223-247, with the draws of every pair.
RECURSIVE crossover(_, _, _, _, _, _)
crossover(pb, pop, i, choices, h, acc) ==
    IF i >= Len(pop) THEN [pop |-> acc, heap |-> h, error |-> ""]
    ELSE LET r == CrossPair(pb, pop, i, choices[(i \div 2) + 1], h, acc)
         IN  IF r.error # "" THEN r
             ELSE crossover(pb, pop, i + 2, choices, r.heap, r.pop)

(***************************************************************************)
(* genetic.py: mutation operators.                                         *)
(***************************************************************************)
\* swappingMutation, lines 253-272, with pos1 and pos2 drawn (0-based).
swappingMutation(p, pos1, pos2) ==
    [n \in 1..Len(p) |->
        IF n = pos1 + 1 THEN p[pos2 + 1]
        ELSE IF n = pos2 + 1 THEN p[pos1 + 1]
        ELSE p[n]]

\* list(itertools.permutations([e1, e2, e3])), as index triples.
Permutations3 ==
    <<<<1, 2, 3>>, <<1, 3, 2>>, <<2, 1, 3>>, <<2, 3, 1>>, <<3, 1, 2>>, <<3, 2, 1>>>>

\* The loops of lines 282-286 can end with these positions.
NeighborhoodEnds(p, pos1, pos2, pos3) ==
    /\ p[pos2 + 1] # p[pos1 + 1]
    /\ p[pos3 + 1] # p[pos2 + 1]
    /\ p[pos3 + 1] # p[pos1 + 1]

\* The loops of lines 282-286 never end: p holds no three positions with
\* mutually distinct values.
NeighborhoodLoops(p) ==
    ~ \E a, b, c \in 0..(Len(p) - 1) : NeighborhoodEnds(p, a, b, c)

\* neighborhoodMutation, lines 288-305, once its loops ended with pos1,
\* pos2, pos3; perm is the index random.choice picks.
neighborhoodMutation(p, pos1, pos2, pos3, perm) ==
    LET lo  == SetMin({pos1, pos2, pos3})
        hi  == SetMax({pos1, pos2, pos3})
        mid == CHOOSE x \in {pos1, pos2, pos3} : x # lo /\ x # hi
        e   == <<p[lo + 1], p[mid + 1], p[hi + 1]>>
        permutation == Permutations3[perm]
    IN  [n \in 1..Len(p) |->
            IF n = lo + 1 THEN e[permutation[1]]
            ELSE IF n = mid + 1 THEN e[permutation[2]]
            ELSE IF n = hi + 1 THEN e[permutation[3]]
            ELSE p[n]]

\* What mutationOS can draw on p: swap is random.choice([True, False]).
OSDraws(p) ==
    LET positions == 0..(Len(p) - 1)
    IN  {[swap |-> TRUE, pos1 |-> a, pos2 |-> b, pos3 |-> 0, perm |-> 1] :
            a \in positions, b \in positions}
        \cup
        {d \in [swap : {FALSE}, pos1 : positions, pos2 : positions,
                pos3 : positions, perm : 1..6] :
            NeighborhoodEnds(p, d.pos1, d.pos2, d.pos3)}

\* mutationOS, lines 331-340.
mutationOS(p, d) ==
    IF d.swap THEN swappingMutation(p, d.pos1, d.pos2)
    ELSE neighborhoodMutation(p, d.pos1, d.pos2, d.pos3, d.perm)

\* The offspring mutationOS can return on p.
OSResults(p) == {mutationOS(p, d) : d \in OSDraws(p)}

\* The largest number of options an operation of the instance has.
MostOptions(pb) ==
    SetMax({0} \cup {Len(OpAt(pb, 1, p - 1)) : p \in 1..total_ops(pb)})

\* Faulty variant of HalfDraws: line 326 as randint(0, len(op)).
HalfDraws_inclusive(pb, size) ==
    UNION {{[positions |-> ps, vals |-> v] :
               v \in {w \in [ps -> 0..MostOptions(pb)] :
                         \A i \in ps : w[i] <= Len(OpAt(pb, 1, i))}} :
           ps \in {x \in SUBSET (0..(size - 1)) :
                      Cardinality(x) = size \div 2}}

\* What halfMutation can draw: positions is random.sample(range(size), r)
\* and vals[i] the randint(0, len(op) - 1) of line 326 at position i.
HalfDraws(pb, size) ==
    UNION {{[positions |-> ps, vals |-> v] :
               v \in {w \in [ps -> 0..(MostOptions(pb) - 1)] :
                         \A i \in ps : w[i] <= Len(OpAt(pb, 1, i)) - 1}} :
           ps \in {x \in SUBSET (0..(size - 1)) :
                      Cardinality(x) = size \div 2}}

\* halfMutation, lines 307-329: the content of the list p (and o, the same
\* object) after the loop.
halfMutation(p, d) ==
    [n \in 1..Len(p) |->
        IF (n - 1) \in d.positions THEN d.vals[n - 1] ELSE p[n]]

\* What the loop body of mutation, lines 361-366, can do with an individual
\* of OS p: carry it, or mutate it; randint(0, len(p) - 1) raises
\* ValueError on an empty list and neighborhoodMutation may never return.
IndividualChoices(pb, p) ==
    {[mutate |-> FALSE, ends |-> "returns", os |-> p,
      half |-> [positions |-> {}, vals |-> <<>>]]}
    \cup
    (IF Len(p) = 0
     THEN {[mutate |-> TRUE, ends |-> "ValueError", os |-> p,
            half |-> [positions |-> {}, vals |-> <<>>]]}
     ELSE {[mutate |-> TRUE, ends |-> "returns", os |-> o, half |-> hd] :
              o \in OSResults(p), hd \in HalfDraws(pb, Len(p))}
          \cup
          (IF NeighborhoodLoops(p)
           THEN {[mutate |-> TRUE, ends |-> "loops", os |-> p,
                  half |-> [positions |-> {}, vals |-> <<>>]]}
           ELSE {}))

\* The draws of one call of mutation: one choice per individual, from
\* individual n (1-based) on.
RECURSIVE MutationChoices(_, _, _)
MutationChoices(pb, pop, n) ==
    IF n > Len(pop) THEN {<<>>}
    ELSE {<<c>> \o rest : c \in IndividualChoices(pb, pop[n].os),
                          rest \in MutationChoices(pb, pop, n + 1)}

\* mutation, lines 351-368, from individual n (1-based) on, with the heap
\* h, the offspring acc and the draws so far.
RECURSIVE mutation(_, _, _, _, _, _)
mutation(pop, n, choices, h, acc, drawn) ==
    IF n > Len(pop)
    THEN [pop |-> acc, heap |-> h, drawn |-> drawn, ends |-> "returns"]
    ELSE IF ~choices[n].mutate
    THEN mutation(pop, n + 1, choices, h, Append(acc, pop[n]),
                  Append(drawn, FALSE))
    ELSE IF choices[n].ends # "returns"
    THEN [pop |-> acc, heap |-> h, drawn |-> drawn, ends |-> choices[n].ends]
    ELSE mutation(pop, n + 1, choices,
                  [h EXCEPT ![pop[n].ms] = halfMutation(@, choices[n].half)],
                  Append(acc, [os |-> choices[n].os, ms |-> pop[n].ms]),
                  Append(drawn, TRUE))

(***************************************************************************)
(* main.py: the Q-table.  Q values and rewards are float64 numbers, as in  *)
(* numpy and Python: sign * man * 2^exp with man a natural number of       *)
(* exactly 53 bits (sign 0, man 0 for 0.0), every operation rounded to the *)
(* nearest such number, ties to the even mantissa.  A natural number is a  *)
(* sequence of digits in base 2^15, lowest digit first, without leading    *)
(* zeros.  Exponents stay far inside the float64 range in the runs below,  *)
(* so overflow, underflow and subnormal numbers are left out; -0.0 does    *)
(* not arise (alpha and gamma are positive, sums that cancel give 0.0).    *)
(***************************************************************************)
Base == 2^15

Abs(x) == IF x < 0 THEN 0 - x ELSE x

Digit(a, i) == IF i <= Len(a) THEN a[i] ELSE 0

RECURSIVE NNorm(_)
NNorm(a) ==
    IF a = <<>> THEN <<>>
    ELSE IF a[Len(a)] = 0 THEN NNorm(SubSeq(a, 1, Len(a) - 1))
    ELSE a

RECURSIVE NFromInt(_)
NFromInt(n) == IF n = 0 THEN <<>> ELSE <<n % Base>> \o NFromInt(n \div Base)

RECURSIVE NAddC(_, _, _, _)
NAddC(a, b, i, c) ==
    IF i > Len(a) /\ i > Len(b)
    THEN IF c = 0 THEN <<>> ELSE <<c>>
    ELSE LET s == Digit(a, i) + Digit(b, i) + c
         IN  <<s % Base>> \o NAddC(a, b, i + 1, s \div Base)

NAdd(a, b) == NNorm(NAddC(a, b, 1, 0))

\* a - b for a >= b.
RECURSIVE NSubB(_, _, _, _)
NSubB(a, b, i, borrow) ==
    IF i > Len(a) THEN <<>>
    ELSE LET s == a[i] - Digit(b, i) - borrow
         IN  <<IF s < 0 THEN s + Base ELSE s>>
             \o NSubB(a, b, i + 1, IF s < 0 THEN 1 ELSE 0)

NSub(a, b) == NNorm(NSubB(a, b, 1, 0))

\* a * k for one digit k.
RECURSIVE NMulSmallC(_, _, _, _)
NMulSmallC(a, k, i, c) ==
    IF i > Len(a)
    THEN IF c = 0 THEN <<>> ELSE <<c>>
    ELSE LET s == a[i] * k + c
         IN  <<s % Base>> \o NMulSmallC(a, k, i + 1, s \div Base)

NMulSmall(a, k) == NNorm(NMulSmallC(a, k, 1, 0))

RECURSIVE NMulFrom(_, _, _)
NMulFrom(a, b, i) ==
    IF i > Len(b) THEN <<>>
    ELSE NAdd(NMulSmall(a, b[i]), <<0>> \o NMulFrom(a, b, i + 1))

NMul(a, b) == NNorm(NMulFrom(a, b, 1))

RECURSIVE NLessAt(_, _, _)
NLessAt(a, b, i) ==
    IF i = 0 THEN FALSE
    ELSE IF a[i] # b[i] THEN a[i] < b[i]
    ELSE NLessAt(a, b, i - 1)

NLess(a, b) ==
    IF Len(a) # Len(b) THEN Len(a) < Len(b) ELSE NLessAt(a, b, Len(a))

RECURSIVE BitLenSmall(_)
BitLenSmall(d) == IF d = 0 THEN 0 ELSE 1 + BitLenSmall(d \div 2)

NBitLen(a) ==
    IF a = <<>> THEN 0 ELSE 15 * (Len(a) - 1) + BitLenSmall(a[Len(a)])

\* a * 2^k.
NShl(a, k) ==
    NNorm([i \in 1..(k \div 15) |-> 0] \o NMulSmall(a, 2^(k % 15)))

\* Quotient and remainder of a by d, 0 < d <= Base.
RECURSIVE NDivSmall(_, _)
NDivSmall(a, d) ==
    IF a = <<>> THEN [q |-> <<>>, r |-> 0]
    ELSE LET hi  == NDivSmall(Tail(a), d)
             cur == hi.r * Base + a[1]
         IN  [q |-> <<cur \div d>> \o hi.q, r |-> cur % d]

\* The floor of a / 2^k.
NShr(a, k) ==
    NNorm(NDivSmall(SubSeq(a, (k \div 15) + 1, Len(a)), 2^(k % 15)).q)

\* Bit j of a, bit 0 the lowest.
Bit(a, j) == (Digit(a, (j \div 15) + 1) \div 2^(j % 15)) % 2

\* The k lowest bits of a are all 0.
LowBitsZero(a, k) ==
    /\ \A i \in 1..(k \div 15) : Digit(a, i) = 0
    /\ Digit(a, (k \div 15) + 1) % 2^(k % 15) = 0

FZero == [sign |-> 0, man |-> <<>>, exp |-> 0]

\* The float64 nearest to sign * n * 2^e, ties to even.
Round(sign, n, e) ==
    LET len == NBitLen(n)
        k   == len - 53
    IN  IF len = 0 THEN FZero
        ELSE IF len <= 53
        THEN [sign |-> sign, man |-> NShl(n, 53 - len), exp |-> e - (53 - len)]
        ELSE LET q  == NShr(n, k)
                 up == /\ Bit(n, k - 1) = 1
                       /\ (~LowBitsZero(n, k - 1) \/ Bit(q, 0) = 1)
                 q2 == IF up THEN NAdd(q, <<1>>) ELSE q
             IN  IF NBitLen(q2) = 54
                 THEN [sign |-> sign, man |-> NShr(q2, 1), exp |-> e + k + 1]
                 ELSE [sign |-> sign, man |-> q2, exp |-> e + k]

\* n / d in Python for integers n and 0 < d <= 2^15: the quotient rounded
\* once.  The remainder of the long division is kept as a lowest bit.
Frac(n, d) ==
    LET dv == NDivSmall(NShl(NFromInt(Abs(n)), 75), d)
        q  == NNorm(dv.q)
    IN  Round(IF n < 0 THEN 0 - 1 ELSE 1,
              NAdd(NShl(q, 1), IF dv.r = 0 THEN <<>> ELSE <<1>>),
              0 - 76)

FNeg(x) == [x EXCEPT !.sign = 0 - @]

\* x + y in float64.
FAdd(x, y) ==
    IF x.sign = 0 THEN y
    ELSE IF y.sign = 0 THEN x
    ELSE LET e == IF x.exp < y.exp THEN x.exp ELSE y.exp
             a == NShl(x.man, x.exp - e)
             b == NShl(y.man, y.exp - e)
         IN  IF x.sign = y.sign THEN Round(x.sign, NAdd(a, b), e)
             ELSE IF a = b THEN FZero
             ELSE IF NLess(a, b) THEN Round(y.sign, NSub(b, a), e)
             ELSE Round(x.sign, NSub(a, b), e)

\* x * y in float64.
FMul(x, y) ==
    IF x.sign = 0 \/ y.sign = 0 THEN FZero
    ELSE Round(x.sign * y.sign, NMul(x.man, y.man), x.exp + y.exp)

\* |x| < |y| for two numbers other than 0.
MagLess(x, y) == x.exp < y.exp \/ (x.exp = y.exp /\ NLess(x.man, y.man))

\* x < y in float64.
FLess(x, y) ==
    IF x.sign # y.sign THEN x.sign < y.sign
    ELSE IF x.sign = 0 THEN FALSE
    ELSE IF x.sign = 1 THEN MagLess(x, y)
    ELSE MagLess(y, x)

\* initialize_SLGA_parameters, lines 11-18: alpha = 0.1 and gamma = 0.9.
alpha == Frac(1, 10)

gamma == Frac(9, 10)

\* (1 - alpha), lines 24 and 29.
OneMinusAlpha == FAdd(Frac(1, 1), FNeg(alpha))

\* initialize_Q_table, lines 20-21.
initialize_Q_table(population_size) ==
    [s \in 1..population_size |-> <<FZero, FZero>>]

\* np.argmax(Q[state]): the first index of the largest entry.
argmax(row) == IF FLess(row[1], row[2]) THEN 1 ELSE 0

\* max(Q[next_state]).
FMax(row) == IF FLess(row[1], row[2]) THEN row[2] ELSE row[1]

\* Faulty variant of update_Q_sarsa: the entry updated is that of the next
\* state, the row the next generation reads.
update_Q_sarsa_nextRow(q, state, a, r, next_state, next_a) ==
    [q EXCEPT ![next_state + 1][a + 1] =
        FAdd(FMul(OneMinusAlpha, @),
             FMul(alpha, FAdd(r, FMul(gamma, q[next_state + 1][next_a + 1]))))]

\* update_Q_sarsa, lines 23-25.
update_Q_sarsa(q, state, a, r, next_state, next_a) ==
    [q EXCEPT ![state + 1][a + 1] =
        FAdd(FMul(OneMinusAlpha, @),
             FMul(alpha, FAdd(r, FMul(gamma, q[next_state + 1][next_a + 1]))))]

\* update_Q_qlearning, lines 27-30.
update_Q_qlearning(q, state, a, r, next_state) ==
    [q EXCEPT ![state + 1][a + 1] =
        FAdd(FMul(OneMinusAlpha, @),
             FMul(alpha, FAdd(r, FMul(gamma, FMax(q[next_state + 1])))))]

\* The epsilon-greedy choice of lines 176-179 and 193-196: either branch of
\* random.random() < epsilon can be taken.
EpsilonGreedy(row) == {0, 1} \cup {argmax(row)}

(***************************************************************************)
(* main.py: run_genetic_algorithm, from the state its lines 111-133 leave, *)
(* one step per call of the loop body.  Pc and Pm are drawn anew in every  *)
(* generation from (0.4, 0.9) and (0.01, 0.21), so that for every pair and *)
(* every individual both outcomes of random.random() < Pc and              *)
(* random.random() < Pm are possible; their values are not recorded.       *)
(***************************************************************************)
\* Two machines and three jobs of one operation; the first has a choice
\* of machine: makespan 2 on machine 1 and 3 on machine 2.
RichInstance ==
    [machinesNb |-> 2,
     jobs |-> <<<<<<[machine |-> 1, processingTime |-> 1],
                    [machine |-> 2, processingTime |-> 2]>>>>,
                <<<<[machine |-> 1, processingTime |-> 1]>>>>,
                <<<<[machine |-> 2, processingTime |-> 1]>>>>>>]

\* One job of one operation with one option.
TrivialInstance ==
    [machinesNb |-> 1,
     jobs |-> <<<<<<[machine |-> 1, processingTime |-> 5]>>>>>>]

\* One job without operations (the job line "0" of a .fjs file).
EmptyInstance == [machinesNb |-> 1, jobs |-> <<<<>>>>]

\* One job of one operation of processing time 0.
ZeroInstance ==
    [machinesNb |-> 1,
     jobs |-> <<<<<<[machine |-> 1, processingTime |-> 0]>>>>>>]

\* One job of one operation with a choice of machine: makespan 1 on
\* machine 1 and 2 on machine 2.
ChoiceInstance ==
    [machinesNb |-> 2,
     jobs |-> <<<<<<[machine |-> 1, processingTime |-> 1],
                    [machine |-> 2, processingTime |-> 2]>>>>>>]

\* One job of two operations, the first with a choice of machine: makespan
\* 2 with machine 1 and 3 with machine 2.
PairInstance ==
    [machinesNb |-> 2,
     jobs |-> <<<<<<[machine |-> 1, processingTime |-> 1],
                    [machine |-> 2, processingTime |-> 2]>>,
                  <<[machine |-> 1, processingTime |-> 1]>>>>>>]

\* config.maxGen, config.py line 7.
maxGen == 200

\* config.pr: the default 0.2, and 0.5, with which a population of two
\* keeps an elite of one.
PrValues == {<<1, 5>>, <<1, 2>>}

\* The runs: an instance with the settings of config.py.
Scenarios ==
    {[pb |-> RichInstance,
      cfg |-> [popSize |-> n, maxGen |-> 1, prNum |-> pr[1], prDen |-> pr[2]]] :
        n \in 1..2, pr \in PrValues}
    \cup
    {[pb |-> pb,
      cfg |-> [popSize |-> n, maxGen |-> MaxGen, prNum |-> pr[1], prDen |-> pr[2]]] :
        pb \in {TrivialInstance, EmptyInstance, ZeroInstance},
        n \in 1..MaxPop, pr \in PrValues}
    \cup
    {[pb |-> ChoiceInstance,
      cfg |-> [popSize |-> 2, maxGen |-> MaxGen,
               prNum |-> pr[1], prDen |-> pr[2]]] :
        pr \in PrValues}
    \cup
    {[pb |-> PairInstance,
      cfg |-> [popSize |-> 4, maxGen |-> 2, prNum |-> 1, prDen |-> 2]]}
    \cup
    {[pb |-> TrivialInstance,
      cfg |-> [popSize |-> 2, maxGen |-> maxGen,
               prNum |-> pr[1], prDen |-> pr[2]]] :
        pr \in PrValues}

\* initializePopulation, lines 43-56 of encoding.py: popSize individuals,
\* each with lists of its own.
InitialPopulations(pb, n) ==
    {[pop  |-> [x \in 1..n |-> [os |-> oss[x], ms |-> x]], heap |-> mss] :
        oss \in [1..n -> LegalOS(pb)], mss \in [1..n -> LegalMS(pb)]}

DecodeIdle ==
    /\ dOS = <<>>
    /\ dMS = <<>>
    /\ dec = [machine_operations |-> <<>>, indexes |-> <<>>,
              start_task_cstr |-> <<>>, pos |-> 0, status |-> "idle"]

\* No single operator call is being followed.
OpIdle ==
    /\ call = [fn |-> "none"]
    /\ ret = [res |-> "none"]

\* The state after lines 126-133: the instance parsed, the population
\* initialized and the Q-table zeroed.
Init ==
    \E sc \in Scenarios :
        \E ip \in InitialPopulations(sc.pb, sc.cfg.popSize) :
            /\ inst = sc.pb
            /\ cfg = sc.cfg
            /\ population = ip.pop
            /\ heap = ip.heap
            /\ Q = initialize_Q_table(sc.cfg.popSize)
            /\ pc = "start"
            /\ error = ""
            /\ gen = 1
            /\ newPop = <<>>
            /\ action = 0
            /\ next_action = 0
            /\ best_time = 0
            /\ new_best_time = 0
            /\ reward = FZero
            /\ previous_best_time = Infinity
            /\ no_improvement_count = 0
            /\ use_sarsa = TRUE
                    /\ mutDrawn = <<>>
            /\ DecodeIdle
            /\ OpIdle

\* Faulty variant of shouldTerminate: line 15 as gen >= config.maxGen.
shouldTerminate_inclusive(c, g) == g >= c.maxGen

\* shouldTerminate, termination.py lines 8-15.
shouldTerminate(c, g) == g > c.maxGen

\* The content of a population: per index the OS and the MS it reads now.
Content(pop, h) == [n \in 1..Len(pop) |-> [os |-> pop[n].os, ms |-> h[pop[n].ms]]]

\* Lines 135-153: the best initial individual is decoded and its Gantt chart
\* drawn. timeTaken raises what decode raises, and draw_chart (gantt.py
\* lines 95 and 113) takes max(max_len) of the end times of the schedule,
\* which raises ValueError when no operation is scheduled.
Start ==
    /\ pc = "start"
    /\ IF AnyFails(inst, population, heap)
       THEN /\ pc' = "error"
            /\ error' = "TypeError"
       ELSE IF total_ops(inst) = 0
       THEN /\ pc' = "error"
            /\ error' = "ValueError"
       ELSE /\ pc' = "loop"
            /\ error' = ""
    /\ UNCHANGED <<inst, decVars, opVars, cfg, gen, population, heap, newPop, rlVars,
                   mutDrawn>>

\* Line 156: the loop condition fails and the loop is left.
LoopExit ==
    /\ pc = "loop"
    /\ \/ shouldTerminate(cfg, gen)
       \/ no_improvement_count >= max_no_improvement_generations
    /\ pc' = "done"
    /\ UNCHANGED <<inst, decVars, opVars, cfg, error, gen, population, heap, newPop,
                   rlVars, mutDrawn>>

\* Lines 156-185: the loop is entered, the population evaluated, the streak
\* counted and the action chosen.  timeTaken raises what decode raises.
GenStart ==
    /\ pc = "loop"
    /\ ~shouldTerminate(cfg, gen)
    /\ no_improvement_count < max_no_improvement_generations
    /\ IF AnyFails(inst, population, heap)
       THEN /\ pc' = "error"
            /\ error' = "TypeError"
            /\ UNCHANGED <<best_time, no_improvement_count, previous_best_time,
                           action>>
       ELSE /\ best_time' = BestTime(inst, population, heap)
            /\ no_improvement_count' =
                  IF best_time' = previous_best_time
                  THEN no_improvement_count + 1 ELSE 0
            /\ previous_best_time' = best_time'
            /\ action' \in EpsilonGreedy(Q[(gen % Len(population)) + 1])
            /\ pc' = "select"
            /\ error' = ""
    /\ UNCHANGED <<inst, decVars, opVars, cfg, gen, population, heap, newPop, Q,
                   next_action, new_best_time, reward, use_sarsa,
                   mutDrawn>>

\* selection returns newPop and line 188 binds it to population.
SelectionReturns(pop) ==
    LET order == RefOrder(pop, <<>>)
    IN  /\ population' = Renamed(pop, order)
        /\ heap' = Reheaped(heap, order)
        /\ newPop' = <<>>
        /\ pc' = "crossover"

\* Line 77 of genetic.py: newPop = elitistSelection(population, parameters).
SelectElite ==
    /\ pc = "select"
    /\ LET elite == elitistSelection(cfg, population,
                                     Times(inst, population, heap))
       IN  IF Len(elite) < Len(population)
           THEN /\ newPop' = elite
                /\ pc' = "tournament"
                /\ UNCHANGED <<population, heap>>
           ELSE SelectionReturns(elite)
    /\ UNCHANGED <<inst, decVars, opVars, cfg, error, gen, rlVars, mutDrawn>>

\* Lines 78-79 of genetic.py: one tournament appended to newPop; after the
\* last one selection returns.
Tournament ==
    /\ pc = "tournament"
    /\ \E a, b \in 1..Len(population) :
          LET grown == Append(newPop,
                           tournamentSelection(population,
                               Times(inst, population, heap), a, b))
          IN  IF Len(grown) < Len(population)
              THEN /\ newPop' = grown
                   /\ UNCHANGED <<population, heap, pc>>
              ELSE SelectionReturns(grown)
    /\ UNCHANGED <<inst, decVars, opVars, cfg, error, gen, rlVars, mutDrawn>>

\* Line 189: population = genetic.crossover(population, parameters, Pc).
Crossover ==
    /\ pc = "crossover"
    /\ \E choices \in [1..((Len(population) + 1) \div 2) -> CrossChoices(inst)] :
          LET r == crossover(inst, population, 0, choices, heap, <<>>)
              order == RefOrder(r.pop, <<>>)
          IN  IF r.error # ""
              THEN /\ pc' = "error"
                   /\ error' = r.error
                   /\ UNCHANGED <<population, heap>>
              ELSE /\ population' = Renamed(r.pop, order)
                   /\ heap' = Reheaped(r.heap, order)
                   /\ pc' = "mutation"
                   /\ error' = ""
    /\ UNCHANGED <<inst, decVars, opVars, cfg, gen, newPop, rlVars, mutDrawn>>

\* Line 190: population = genetic.mutation(population, parameters, Pm).
\* halfMutation writes into the MS lists the population holds, also when a
\* later individual ends the call with an exception or never returns.
Mutation ==
    /\ pc = "mutation"
    /\ \E choices \in MutationChoices(inst, population, 1) :
          LET r == mutation(population, 1, choices, heap, <<>>, <<>>)
          IN  /\ heap' = r.heap
              /\ mutDrawn' = r.drawn
              /\ IF r.ends = "returns"
                 THEN /\ population' = r.pop
                      /\ pc' = "update"
                      /\ error' = ""
                 ELSE IF r.ends = "loops"
                 THEN /\ pc' = "hang"
                      /\ UNCHANGED <<population, error>>
                 ELSE /\ pc' = "error"
                      /\ error' = r.ends
                      /\ UNCHANGED population
    /\ UNCHANGED <<inst, decVars, opVars, cfg, gen, newPop, rlVars>>

\* Lines 192-222: the next action, the reward, the Q update, the switch to
\* Q-learning and gen += 1.  Line 201 divides by best_time.
Update ==
    /\ pc = "update"
    /\ IF AnyFails(inst, population, heap)
       THEN /\ pc' = "error"
            /\ error' = "TypeError"
            /\ UNCHANGED <<next_action, new_best_time, reward, Q, use_sarsa, gen>>
       ELSE /\ next_action' \in EpsilonGreedy(Q[((gen + 1) % Len(population)) + 1])
            /\ new_best_time' = BestTime(inst, population, heap)
            /\ IF best_time = 0
               THEN /\ pc' = "error"
                    /\ error' = "ZeroDivisionError"
                    /\ UNCHANGED <<reward, Q, use_sarsa, gen>>
               ELSE /\ reward' = Frac(best_time - new_best_time', best_time)
                    /\ Q' = IF use_sarsa
                            THEN update_Q_sarsa(Q, gen % Len(population), action,
                                     reward', (gen + 1) % Len(population),
                                     next_action')
                            ELSE update_Q_qlearning(Q, gen % Len(population),
                                     action, reward',
                                     (gen + 1) % Len(population))
                    /\ use_sarsa' = IF gen > Len(population) * 10
                                    THEN FALSE ELSE use_sarsa
                    /\ gen' = gen + 1
                    /\ pc' = "loop"
                    /\ error' = ""
    /\ mutDrawn' = <<>>
    /\ UNCHANGED <<inst, decVars, opVars, cfg, population, heap, newPop, action,
                   best_time, previous_best_time, no_improvement_count>>

Next ==
    \/ Start
    \/ LoopExit
    \/ GenStart
    \/ SelectElite
    \/ Tournament
    \/ Crossover
    \/ Mutation
    \/ Update

Spec == Init /\ [][Next]_vars

(***************************************************************************)
(* Properties of the generational loop.                                    *)
(***************************************************************************)
\* Every individual the run holds: the population and the list a running
\* selection is building.
Individuals ==
    {population[n] : n \in 1..Len(population)} \cup
    {newPop[n] : n \in 1..Len(newPop)}

\* C1: in every generation, after any sequence of selection, crossover and
\* OS mutation, every individual's OS has length total_ops and holds each
\* job id j in [0, J) exactly |jobs[j]| times and no other value.
C1_OSLegal ==
    \A ind \in Individuals :
        /\ Len(ind.os) = total_ops(inst)
        /\ \A n \in 1..Len(ind.os) : ind.os[n] \in 0..(Len(inst.jobs) - 1)
        /\ \A j \in 1..Len(inst.jobs) : Count(ind.os, j - 1) = Len(inst.jobs[j])

\* C1's case: on the three-job instance, selection, crossover and mutation
\* returned, an individual was mutated and the OS lists of the population
\* are not all the same.
C1_Witness ==
    /\ pc = "update"
    /\ inst = RichInstance
    /\ Len(population) = 2
    /\ \E n \in 1..Len(mutDrawn) : mutDrawn[n]
    /\ population[1].os # population[2].os

\* C2: in every generation, after any sequence of selection, two-point
\* crossover and half mutation, every individual's MS has length total_ops
\* and 0 <= MS[p] < the number of options of the operation at position p.
C2_MSLegal ==
    \A ind \in Individuals :
        /\ Len(heap[ind.ms]) = total_ops(inst)
        /\ \A p \in 1..Len(heap[ind.ms]) :
              /\ 0 <= heap[ind.ms][p]
              /\ heap[ind.ms][p] < Len(OpAt(inst, 1, p - 1))

\* C2's case: on the three-job instance mutation returned with a mutated
\* individual, and the population holds both machine choices of the first
\* operation.
C2_Witness ==
    /\ pc = "update"
    /\ inst = RichInstance
    /\ Len(population) = 2
    /\ \E n \in 1..Len(mutDrawn) : mutDrawn[n]
    /\ heap[population[1].ms][1] # heap[population[2].ms][1]

\* The elite count of the run.
EliteCount == keptPopSize(cfg, cfg.popSize)

\* C5 as claimed: with an elite count >= 1, the best makespan after the
\* selection, crossover and mutation of a generation is never greater than
\* the best makespan the generation started with.
C5_BestMonotone ==
    (pc = "loop" /\ gen > 1 /\ EliteCount >= 1) => new_best_time <= best_time

\* C5 as amended: with an elite count >= 1, the best makespan of the
\* population selection returns is never greater than the best makespan
\* the generation started with.
C5_EliteKept ==
    (pc = "crossover" /\ EliteCount >= 1)
        => BestTime(inst, population, heap) <= best_time

\* C5's case: selection returned with an elite of one on a population whose
\* makespans differ.
C5_Witness ==
    /\ pc = "crossover"
    /\ EliteCount >= 1
    /\ inst = RichInstance
    /\ \E n \in 1..Len(population) :
          Times(inst, population, heap)[n] > best_time

\* C6: after selection, after crossover and after mutation of every
\* generation the population holds exactly popSize individuals, and a
\* running selection never holds more.
C6_PopSizeConstant ==
    /\ Len(population) = cfg.popSize
    /\ Len(newPop) <= cfg.popSize

\* C6's case: a generation of selection, crossover and mutation completed on
\* a population of two.
C6_Witness ==
    /\ pc = "loop"
    /\ gen = 2
    /\ inst = RichInstance
    /\ Len(population) = 2

\* C7 as claimed: the operators are pure; a call of mutation, which applies
\* swapping or neighborhood mutation and half mutation to the individuals
\* it draws, leaves the content of every MS list of the population it was
\* given as it was. (OS lists are held by value: no operator writes into
\* one, and the crossover operators build their offspring in new lists.)
C7_OperatorsPure ==
    [][pc = "mutation" =>
          \A n \in 1..Len(population) :
              heap'[population[n].ms] = heap[population[n].ms]]_vars

\* C8 as claimed: every individual mutation did not draw is, at the same
\* index of the population it returns, equal in OS and MS content to what
\* it was before the call.
C8_CarriedUnchanged ==
    [][(pc = "mutation" /\ pc' = "update") =>
          \A n \in 1..Len(population) :
              ~mutDrawn'[n] =>
                  /\ population'[n].os = population[n].os
                  /\ heap'[population'[n].ms] = heap[population[n].ms]]_vars

\* C9 as claimed: crossover on a population of odd size completes, returns
\* a population of the same size and carries the last individual through
\* unchanged.
C9_OddCarries ==
    [][(pc = "crossover" /\ Len(population) % 2 = 1) =>
          /\ pc' = "mutation"
          /\ Len(population') = Len(population)
          /\ Content(population', heap')[Len(population)]
                = Content(population, heap)[Len(population)]]_vars

\* A generation is being executed.
Running == pc \in {"select", "tournament", "crossover", "mutation", "update"}

\* The loop condition of C11: generation g is executed only while
\* g <= maxGen and the streak is below 50, and the loop is left only when
\* that fails; on the one-operation instance, where the best makespan is
\* the same at the start of every generation, generation g starts with
\* streak g - 1, generation 51 is the last one executed and the loop is
\* left with gen = 52 (with gen = maxGen + 1 when maxGen < 51).
EarlyStop ==
    /\ Running => (gen <= cfg.maxGen /\ no_improvement_count <= 50)
    /\ pc = "done" => (gen > cfg.maxGen \/ no_improvement_count >= 50)
    /\ inst = TrivialInstance =>
          /\ Running => (gen <= 51 /\ no_improvement_count = gen - 1)
          /\ pc = "done" =>
                gen = (IF cfg.maxGen < 51 THEN cfg.maxGen ELSE 51) + 1

\* The counting of C11: the step that starts generation g sets the streak
\* to the old streak + 1 when g > 1 and the best makespan equals the one
\* the generation before started with, and to 0 otherwise.
StreakCounts ==
    (pc = "loop" /\ pc' = "select") =>
        no_improvement_count' =
            IF gen > 1 /\ best_time' = best_time
            THEN no_improvement_count + 1 ELSE 0

\* C11: the no-improvement streak counts the consecutive generations whose
\* starting best makespan equals that of the generation before and resets
\* to 0 on any inequality; the loop executes generation g only while
\* g <= maxGen and the streak is below 50, so with a best makespan that
\* never changes generation 51 is the last one executed.
C11_EarlyStop == []EarlyStop /\ [][StreakCounts]_vars

\* C11's case: with maxGen = 200 the loop was left after generation 51,
\* with a streak of 50.
C11_Witness ==
    /\ pc = "done"
    /\ cfg.maxGen = maxGen
    /\ gen = 52
    /\ no_improvement_count = 50

\* C14 as claimed: neighborhoodMutation terminates on every legal OS, so a
\* call of mutation is never stuck in its resampling loops.
C14_NeighborhoodTerminates == pc # "hang"

\* C15 as claimed: the Q update of generation g uses the SARSA rule for
\* every g <= 10 * N and the Q-learning rule for every g > 10 * N.
C15_PhaseSwitch ==
    pc = "update" => (use_sarsa <=> gen <= 10 * Len(population))

\* The list selection returns against the list it was called with, at the
\* step where selection returns: its length, its elite and its tournament
\* winners.
SelectionContract ==
    \E given \in {Content(population, heap)},
       T \in {Times(inst, population, heap)},
       out \in {Content(population', heap')} :
        LET N == Len(given)
            k == (cfg.prNum * N) \div cfg.prDen
            Before(m, n) == T[m] < T[n] \/ (T[m] = T[n] /\ m < n)
        IN  /\ Len(out) = N
            /\ \E f \in [1..k -> 1..N] :
                  /\ \A r, s \in 1..k : r < s => Before(f[r], f[s])
                  /\ \A n \in 1..N :
                        (\A r \in 1..k : f[r] # n)
                            => \A r \in 1..k : Before(f[r], n)
                  /\ \A r \in 1..k : out[r] = given[f[r]]
            /\ \A r \in (k + 1)..N :
                  \E a, b \in 1..N :
                      out[r] = given[IF T[b] < T[a] THEN b ELSE a]

\* C18: selection(population) returns exactly N = len(population)
\* individuals; the first floor(pr * N) are the floor(pr * N) individuals of
\* lowest makespan in ascending makespan order, ties in input order, and
\* each of the others is a member of the input population, the fitter of
\* two individuals drawn with replacement (the first drawn on a tie).
C18_SelectionContract ==
    [][(pc \in {"select", "tournament"} /\ pc' = "crossover")
            => SelectionContract]_vars

\* C18's case: selection returned four individuals of the two-operation
\* instance, an elite of two of makespans 2 and 3 followed by two
\* tournament winners of makespans 3 and 2.
C18_Witness ==
    /\ pc = "crossover"
    /\ inst = PairInstance
    /\ Len(population) = 4
    /\ keptPopSize(cfg, Len(population)) = 2
    /\ Times(inst, population, heap) = <<2, 3, 3, 2>>

\* A row of the Q-table that holds its initial zeros.
ZeroRow(row) == row = <<FZero, FZero>>

\* C20: when maxGen < popSize, the row read for the action of generation g
\* (row g mod N) and the row read for the next action (row (g + 1) mod N)
\* have not been written when they are read, so both are all zero: an
\* exploit step chooses action 0, the update leaves Q[g][a] = alpha * reward,
\* and the Q-learning branch is never taken.
C20_UnwrittenRows ==
    cfg.maxGen < cfg.popSize =>
        LET N == Len(population)
        IN  /\ use_sarsa
            /\ (pc = "loop" /\ gen <= cfg.maxGen) \/ Running =>
                  /\ ZeroRow(Q[(gen % N) + 1])
                  /\ ZeroRow(Q[((gen + 1) % N) + 1])
                  /\ argmax(Q[(gen % N) + 1]) = 0
                  /\ argmax(Q[((gen + 1) % N) + 1]) = 0
            /\ (pc \in {"loop", "done"} /\ gen > 1) =>
                  Q[((gen - 1) % N) + 1][action + 1] = FMul(alpha, reward)

\* C20's case: a run of two generations on a population of four ended,
\* both updates with a reward other than 0, the second with action 1.
C20_Witness ==
    /\ cfg.maxGen < cfg.popSize
    /\ pc = "done"
    /\ gen = 3
    /\ action = 1
    /\ reward # FZero
    /\ ~ZeroRow(Q[2])
    /\ Q[3][2] # FZero

\* The case of C10 does not arise: a generation never starts with a best
\* makespan of 0. A schedule has makespan 0 only when it holds no
\* operation (decode raises on an operation of processing time 0 placed on
\* an empty machine), and on an instance without operations the run ends
\* in draw_chart before the loop is reached.
BestTimePositive ==
    pc \in {"select", "tournament", "crossover", "mutation", "update"}
        => best_time > 0

(***************************************************************************)
(* Decoder runs: decode on every legal chromosome of a family of           *)
(* instances, one placement per step.                                      *)
(***************************************************************************)
\* Option lists of the generated instances: one machine, or both machines.
DecOptionLists ==
    {<<[machine |-> m, processingTime |-> t]>> : m \in 1..2, t \in 0..MaxDur}
    \cup
    {<<[machine |-> 1, processingTime |-> t1],
       [machine |-> 2, processingTime |-> t2]>> : t1, t2 \in 0..MaxDur}

\* Two machines, a job of two operations and a job of one.
DecInstances ==
    {[machinesNb |-> 2, jobs |-> <<<<a, b>>, <<c>>>>] :
        a \in DecOptionLists, b \in DecOptionLists, c \in DecOptionLists}

\* One machine, job A of two operations of duration 5 and job B of one
\* operation of duration 3.
GapInstance ==
    [machinesNb |-> 1,
     jobs |-> <<<<<<[machine |-> 1, processingTime |-> 5]>>,
                  <<[machine |-> 1, processingTime |-> 5]>>>>,
                <<<<[machine |-> 1, processingTime |-> 3]>>>>>>]

\* The generational loop is not running.
GAIdle ==
    /\ cfg = [popSize |-> 0, maxGen |-> 0, prNum |-> 0, prDen |-> 1]
    /\ pc = "decode"
    /\ error = ""
    /\ gen = 0
    /\ population = <<>>
    /\ heap = <<>>
    /\ newPop = <<>>
    /\ Q = <<>>
    /\ action = 0
    /\ next_action = 0
    /\ best_time = 0
    /\ new_best_time = 0
    /\ reward = <<0, 1>>
    /\ previous_best_time = Infinity
    /\ no_improvement_count = 0
    /\ use_sarsa = TRUE
    /\ mutDrawn = <<>>

InitDecode ==
    /\ inst \in DecInstances \cup {GapInstance}
    /\ dOS \in LegalOS(inst)
    /\ dMS \in LegalMS(inst)
    /\ dec = DecodeStart(inst)
    /\ GAIdle
    /\ OpIdle

\* One placement of decode's loop.
Place ==
    /\ dec.status = "run"
    /\ dec.pos < Len(dOS)
    /\ dec' = DecodeStep(inst, dOS, dMS, dec)
    /\ UNCHANGED <<inst, dOS, dMS, opVars, gaVars>>

\* The loop ends and decode returns machine_operations.
Return ==
    /\ dec.status = "run"
    /\ dec.pos = Len(dOS)
    /\ dec' = [dec EXCEPT !.status = "done"]
    /\ UNCHANGED <<inst, dOS, dMS, opVars, gaVars>>

NextDecode == Place \/ Return

SpecDecode == InitDecode /\ [][NextDecode]_vars

(***************************************************************************)
(* Single calls: find_first_available_place on every machine list of up to *)
(* MaxPlaced placed operations, and precedenceOperationCrossover on every  *)
(* pair of legal OS of the three-job instance.                             *)
(***************************************************************************)
\* [a.start, a.start + a.prcTime) and [b.start, b.start + b.prcTime) meet.
Overlap(a, b) ==
    Max2(a.start, b.start) < IF PlacedEnd(a) < PlacedEnd(b) THEN PlacedEnd(a)
                                                           ELSE PlacedEnd(b)

\* The tuples decode appends at line 133, as far as
\* find_first_available_place reads them (job[1] and job[3]).
PlacedTuples ==
    {[name |-> <<1, 1>>, prcTime |-> t, start_cstr |-> 0, start |-> st] :
        st \in 0..MaxStart, t \in 0..MaxDur}

\* The lists machine_operations[machine - 1] can be: up to longest placed
\* operations that do not overlap, in any order.
MachineLists(longest) ==
    UNION {{l \in [1..n -> PlacedTuples] :
               \A n1, n2 \in 1..n : n1 # n2 => ~Overlap(l[n1], l[n2])} :
           n \in 0..longest}

FindCalls(longest) ==
    {[fn |-> "find_first_available_place", start_ctr |-> e, duration |-> d,
      machine_jobs |-> l] :
        e \in 0..(MaxStart + 1), d \in 0..MaxDur, l \in MachineLists(longest)}

POXCalls ==
    {[fn |-> "precedenceOperationCrossover", p1 |-> p1, p2 |-> p2] :
        p1 \in LegalOS(RichInstance), p2 \in LegalOS(RichInstance)}

InitOps ==
    /\ inst = RichInstance
    /\ call \in FindCalls(MaxPlaced) \cup POXCalls
    /\ ret = [res |-> "pending"]
    /\ DecodeIdle
    /\ GAIdle

\* find_first_available_place(start_ctr, duration, machine_jobs) is called.
CallFind ==
    /\ call.fn = "find_first_available_place"
    /\ ret.res = "pending"
    /\ ret' = find_first_available_place(call.start_ctr, call.duration,
                                         call.machine_jobs)
    /\ UNCHANGED <<inst, decVars, call, gaVars>>

\* precedenceOperationCrossover(p1, p2, parameters) is called: jobset1 is
\* random.sample(jobsRange, sizeJobset1) with sizeJobset1 in 0..jobNumber,
\* any subset of jobsRange.
CallPOX ==
    /\ call.fn = "precedenceOperationCrossover"
    /\ ret.res = "pending"
    /\ \E jobset1 \in SUBSET POXJobsRange(inst) :
          ret' = [res |-> "ok", jobset1 |-> jobset1,
                  offspring |-> precedenceOperationCrossover(call.p1, call.p2,
                                                             jobset1)]
    /\ UNCHANGED <<inst, decVars, call, gaVars>>

NextOps == CallFind \/ CallPOX

SpecOps == InitOps /\ [][NextOps]_vars

(***************************************************************************)
(* Properties of the single calls.                                         *)
(***************************************************************************)
\* An operation of the call's duration started at k overlaps no operation
\* of the call's machine list.
FitsAt(k) ==
    \A n \in 1..Len(call.machine_jobs) :
        \/ k + call.duration <= call.machine_jobs[n].start
        \/ k >= PlacedEnd(call.machine_jobs[n])
        \/ call.machine_jobs[n].prcTime = 0

\* C16: for every list of non-overlapping placed operations, every
\* earliest time e >= 0 and every duration d >= 1,
\* find_first_available_place returns the smallest start >= e at which
\* [start, start + d) overlaps no placed operation, and never reads outside
\* its occupancy array (no IndexError, no fall through to None).
C16_EarliestGap ==
    (call.fn = "find_first_available_place" /\ ret.res # "pending"
        /\ call.duration >= 1) =>
            /\ ret.res = "ok"
            /\ ret.k >= call.start_ctr
            /\ FitsAt(ret.k)
            /\ \A k \in call.start_ctr..(ret.k - 1) : ~FitsAt(k)

\* C16's case: the call returned a start later than the earliest time, in
\* a gap between two placed operations.
C16_Witness ==
    /\ call.fn = "find_first_available_place"
    /\ ret.res = "ok"
    /\ call.duration >= 1
    /\ ret.k > call.start_ctr
    /\ \E n1, n2 \in 1..Len(call.machine_jobs) :
          /\ call.machine_jobs[n1].prcTime >= 1
          /\ PlacedEnd(call.machine_jobs[n1]) <= ret.k
          /\ call.machine_jobs[n2].prcTime >= 1
          /\ ret.k + call.duration <= call.machine_jobs[n2].start

\* C19 as claimed: the job set S of POX is drawn from the job ids [0, J)
\* and never holds an id that is not a job id of the OS.
C19_POXJobSet ==
    (call.fn = "precedenceOperationCrossover" /\ ret.res = "ok") =>
        ret.jobset1 \subseteq 0..(Len(inst.jobs) - 1)

(***************************************************************************)
(* Properties of the decoder.                                              *)
(***************************************************************************)
\* The tuples placed so far on machine m that have a start.
PlacedOn(m) ==
    {dec.machine_operations[m][n] : n \in 1..Len(dec.machine_operations[m])}

AllPlaced == UNION {PlacedOn(m) : m \in 1..inst.machinesNb}

\* C3: after every placement of decode, and in the schedule it returns, no
\* two operations placed on the same machine have overlapping intervals
\* [start, start + dur).
C3_NoOverlap ==
    \A m \in 1..inst.machinesNb :
        \A n1, n2 \in 1..Len(dec.machine_operations[m]) :
            n1 # n2 =>
                ~Overlap(dec.machine_operations[m][n1],
                         dec.machine_operations[m][n2])

\* C3's case: decode returned a schedule in which a machine holds an
\* operation placed later than another one and starting before it (a gap
\* insertion), both of positive duration.
C3_Witness ==
    /\ dec.status = "done"
    /\ \E m \in 1..inst.machinesNb :
          \E n1, n2 \in 1..Len(dec.machine_operations[m]) :
              /\ n1 < n2
              /\ dec.machine_operations[m][n2].start
                    < dec.machine_operations[m][n1].start
              /\ dec.machine_operations[m][n1].prcTime > 0
              /\ dec.machine_operations[m][n2].prcTime > 0

\* C4: in every schedule decode builds, operation k + 1 of a job starts no
\* earlier than the end of the job's operation k, whatever their machines.
C4_Precedence ==
    \A a, b \in AllPlaced :
        (/\ a.name[1] = b.name[1]
         /\ b.name[2] = a.name[2] + 1
         /\ b.start # NoneVal)
            => b.start >= a.start + a.prcTime

\* C4's case: decode returned a schedule where the two operations of a job
\* run on different machines and the second had to wait for the first.
C4_Witness ==
    /\ dec.status = "done"
    /\ \E m1, m2 \in 1..inst.machinesNb :
          /\ m1 # m2
          /\ \E a \in PlacedOn(m1), b \in PlacedOn(m2) :
                /\ a.name[1] = b.name[1]
                /\ b.name[2] = a.name[2] + 1
                /\ a.prcTime > 0
                /\ b.start = a.start + a.prcTime

\* C12 as claimed: for every schedule decode returns, the exported mapping
\* lists the entries of each machine in ascending order of start.
C12_ExportSorted ==
    dec.status = "done" =>
        LET data == translate_decoded_to_gantt(dec.machine_operations)
        IN  \A m \in DOMAIN data :
                \A n \in 1..(Len(data[m]) - 1) :
                    data[m][n][1] <= data[m][n + 1][1]

\* C13 as claimed: on the gap instance OS = [A, A, B] decodes to makespan
\* 13 and OS = [A, B, A] to makespan 10.
C13_GapScenario ==
    (inst = GapInstance /\ dec.status = "done") =>
        /\ dOS = <<0, 0, 1>> => MakespanOf(dec.machine_operations) = 13
        /\ dOS = <<0, 1, 0>> => MakespanOf(dec.machine_operations) = 10

\* C13 as amended: on the gap instance OS = [A, A, B] decodes to makespan
\* 13 and OS = [A, B, A] decodes to makespan 13 as well.
C13_GapScenarioBoth13 ==
    (inst = GapInstance /\ dec.status = "done") =>
        /\ dOS = <<0, 0, 1>> => MakespanOf(dec.machine_operations) = 13
        /\ dOS = <<0, 1, 0>> => MakespanOf(dec.machine_operations) = 13

\* C13's case: decode returned on the gap instance for OS = [A, B, A], with
\* B placed between the two operations of A.
C13_Witness ==
    /\ inst = GapInstance
    /\ dec.status = "done"
    /\ dOS = <<0, 1, 0>>
    /\ dec.machine_operations[1][2].name = <<2, 1>>
    /\ dec.machine_operations[1][2].start = 5
    /\ dec.machine_operations[1][3].start = 8

\* The processing time selected for the operation decode places next.
NextPrcTime ==
    LET job == dOS[dec.pos + 1]
        k   == dec.indexes[job + 1]
    IN  inst.jobs[job + 1][k + 1][split_ms(inst, dMS)[job + 1][k + 1] + 1]
            .processingTime

\* C17 as claimed: an operation whose selected processing time is 0 is
\* placed at a start >= earliest, on an empty machine or after the last
\* interval too, and decode goes on with job_ready[j] = start.
C17_ZeroDurationPlaced ==
    [][(dec.status = "run" /\ dec.pos < Len(dOS) /\ NextPrcTime = 0) =>
          LET job == dOS[dec.pos + 1]
          IN  /\ dec'.status = "run"
              /\ dec'.pos = dec.pos + 1
              /\ dec'.start_task_cstr[job + 1] >= dec.start_task_cstr[job + 1]
              /\ \E m \in 1..inst.machinesNb :
                    /\ Len(dec'.machine_operations[m])
                          = Len(dec.machine_operations[m]) + 1
                    /\ dec'.machine_operations[m]
                            [Len(dec'.machine_operations[m])].start
                          = dec'.start_task_cstr[job + 1]]_vars

====
